---- MODULE Spec2Model ----
(***************************************************************************)
(* State-machine model of src/querygen.py: class SQLQueryGenerator with    *)
(* its constructor, generate_query (structured path) and                   *)
(* generate_query_from_natural_language (natural-language path), the       *)
(* process environment the latter reads, the module-level openai client    *)
(* configuration it writes, and the chat-completion exchange.              *)
(*                                                                         *)
(* Python values are represented as follows.                               *)
(*   str            a TLA+ string                                          *)
(*   None / value   the empty tuple <<>> / the one-element tuple <<v>>     *)
(*   list of str    a sequence of strings                                  *)
(*   dict           insertion-ordered: a sequence of <<key, value>> pairs  *)
(*                  with distinct keys (conditions); or, where only key    *)
(*                  presence is used, a presence flag plus the key set     *)
(*                  (the schema's "tables" and "fields" mappings)          *)
(***************************************************************************)
EXTENDS Integers, Sequences, FiniteSets, TLC

VARIABLES
    schema,     \* <<>> before construction, <<self.schema>> afterwards
    ctor,       \* outcome of the last call of SQLQueryGenerator.__init__
    env,        \* the process environment: each of the five variables, None if unset
    client,     \* the openai module globals api_type, api_key, api_base, api_version
    pc,         \* per caller: position inside the current invocation
    locals,     \* per caller: local variables of the current invocation
    request,    \* per caller: the chat-completion request in flight, <<>> if none
    last,       \* per caller: the record of the invocation that just completed
    calls       \* number of invocations started so far (bounds the length of a run)

vars == <<schema, ctor, env, client, pc, locals, request, last, calls>>

(***************************************************************************)
(* Bounds of the model.                                                    *)
(***************************************************************************)
MaxCols == 2        \* longest `columns` argument
MaxConds == 2       \* largest `conditions` mapping
MaxContentLen == 2  \* longest message content the service returns
NumThreads == 2     \* concurrent callers of one builder
MaxCalls == 2       \* invocations started in one run

Threads == 1..NumThreads
MainThread == CHOOSE t \in Threads : \A u \in Threads : t <= u

(***************************************************************************)
(* Generic helpers.                                                        *)
(***************************************************************************)
None == <<>>
Some(v) == <<v>>

RECURSIVE SeqsUpTo(_, _)
SeqsUpTo(S, n) ==
    IF n = 0 THEN {<<>>}
    ELSE LET shorter == SeqsUpTo(S, n - 1)
         IN  shorter \cup {Append(s, x) : s \in {q \in shorter : Len(q) = n - 1}, x \in S}

RECURSIVE StringsUpTo(_, _)
StringsUpTo(Alphabet, n) ==
    IF n = 0 THEN {""}
    ELSE LET shorter == StringsUpTo(Alphabet, n - 1)
         IN  shorter \cup {s \o c : s \in {q \in shorter : Len(q) = n - 1}, c \in Alphabet}

(***************************************************************************)
(* Outcomes of a call: a returned value or a raised exception.             *)
(***************************************************************************)
Return(v) == [kind |-> "return", exc |-> "", msg |-> "", value |-> v]
Raise(e, m) == [kind |-> "raise", exc |-> e, msg |-> m, value |-> ""]
NoOutcome == [kind |-> "none", exc |-> "", msg |-> "", value |-> ""]

(***************************************************************************)
(* The schema document and SQLQueryGenerator.__init__.                     *)
(* A parsed document is [hasTables, tables] where tables maps each table   *)
(* name to [hasFields, fields]; hasTables and hasFields record whether the *)
(* "tables" and "fields" keys are present in the JSON text.                *)
(***************************************************************************)
Table(fs) == [hasFields |-> TRUE, fields |-> fs]
TableWithoutFields == [hasFields |-> FALSE, fields |-> {}]

EmployeeSchema ==
    [hasTables |-> TRUE,
     tables |-> [employees |-> Table({"first_name", "department_id", "is_active"}),
                 departments |-> Table({"department_id", "name"})]]

\* the document {}: valid JSON, no "tables" key
NoTablesKey ==
    [hasTables |-> FALSE, tables |-> [T \in {} |-> TableWithoutFields]]

\* a document whose "employees" descriptor is {}: no "fields" key
NoFieldsKey ==
    [hasTables |-> TRUE,
     tables |-> [employees |-> TableWithoutFields,
                 departments |-> Table({"department_id", "name"})]]

Documents ==
    {[kind |-> "missing", value |-> NoTablesKey],
     [kind |-> "unreadable", value |-> NoTablesKey],
     [kind |-> "not_json", value |-> NoTablesKey],
     [kind |-> "json", value |-> EmployeeSchema],
     [kind |-> "json", value |-> NoTablesKey],
     [kind |-> "json", value |-> NoFieldsKey]}

\* open(schema_file, 'r') and json.load(file): the only ways construction fails.
init_outcome(doc) ==
    CASE doc.kind = "missing" -> Raise("FileNotFoundError", "No such file or directory")
      [] doc.kind = "unreadable" -> Raise("PermissionError", "Permission denied")
      [] doc.kind = "not_json" -> Raise("JSONDecodeError", "Expecting value")
      [] OTHER -> Return("")

(***************************************************************************)
(* generate_query.                                                         *)
(***************************************************************************)
\* sep.join(items)
RECURSIVE join(_, _)
join(sep, items) ==
    IF items = <<>> THEN ""
    ELSE IF Len(items) = 1 THEN items[1]
    ELSE items[1] \o sep \o join(sep, Tail(items))

\* [f"{col} = '{val}'" for col, val in conditions.items()]
condition_clauses(conditions) ==
    [i \in 1..Len(conditions) |-> conditions[i][1] \o " = '" \o conditions[i][2] \o "'"]

\* as if the test were `if conditions is not None:`
truthy_conditions_not_none(conditions) == conditions # None

\* `if conditions:` - None and the empty dict are both falsy
truthy_conditions(conditions) == conditions # None /\ conditions[1] # <<>>

\* the first column of the scan `for column in columns` that is not in fields
RECURSIVE first_unknown_column(_, _)
first_unknown_column(columns, fields) ==
    IF columns = <<>> THEN None
    ELSE IF Head(columns) \notin fields THEN Some(Head(columns))
    ELSE first_unknown_column(Tail(columns), fields)

build_query(table_name, columns, conditions) ==
    LET query == "SELECT " \o join(", ", columns) \o " FROM " \o table_name
    IN  IF truthy_conditions(conditions)
        THEN query \o " WHERE " \o join(" AND ", condition_clauses(conditions[1]))
        ELSE query

\* as if the keys of conditions were validated like the columns
generate_query_checking_conditions(s, table_name, columns, conditions) ==
    LET keys == IF conditions = None THEN <<>>
                ELSE [i \in 1..Len(conditions[1]) |-> conditions[1][i][1]]
    IN  IF ~s.hasTables THEN Raise("KeyError", "'tables'")
        ELSE IF table_name \notin DOMAIN s.tables
        THEN Raise("ValueError", "Table '" \o table_name \o "' does not exist in the schema.")
        ELSE IF columns \o keys = <<>>
        THEN Return(build_query(table_name, columns, conditions))
        ELSE IF ~s.tables[table_name].hasFields THEN Raise("KeyError", "'fields'")
        ELSE LET bad == first_unknown_column(columns \o keys, s.tables[table_name].fields)
             IN  IF bad # None
                 THEN Raise("ValueError", "Column '" \o bad[1] \o "' does not exist in table '"
                                          \o table_name \o "'.")
                 ELSE Return(build_query(table_name, columns, conditions))

generate_query(s, table_name, columns, conditions) ==
    IF ~s.hasTables THEN Raise("KeyError", "'tables'")
    ELSE IF table_name \notin DOMAIN s.tables
    THEN Raise("ValueError", "Table '" \o table_name \o "' does not exist in the schema.")
    ELSE IF columns = <<>> THEN Return(build_query(table_name, columns, conditions))
    ELSE IF ~s.tables[table_name].hasFields THEN Raise("KeyError", "'fields'")
    ELSE LET bad == first_unknown_column(columns, s.tables[table_name].fields)
         IN  IF bad # None
             THEN Raise("ValueError", "Column '" \o bad[1] \o "' does not exist in table '"
                                      \o table_name \o "'.")
             ELSE Return(build_query(table_name, columns, conditions))

(***************************************************************************)
(* generate_query_from_natural_language: configuration.                    *)
(***************************************************************************)
ConfigNames ==
    {"AZURE_OPENAI_API_KEY", "AZURE_OPENAI_ENDPOINT", "AZURE_OPENAI_DEPLOYMENT_NAME",
     "AZURE_OPENAI_MODEL", "AZURE_OPENAI_API_VERSION"}

\* Two complete configurations the environment may hold.
ProfileA ==
    [AZURE_OPENAI_API_KEY |-> "key-A", AZURE_OPENAI_ENDPOINT |-> "https://a.example",
     AZURE_OPENAI_DEPLOYMENT_NAME |-> "deploy-A", AZURE_OPENAI_MODEL |-> "model-A",
     AZURE_OPENAI_API_VERSION |-> "2023-05-15"]
ProfileB ==
    [AZURE_OPENAI_API_KEY |-> "key-B", AZURE_OPENAI_ENDPOINT |-> "https://b.example",
     AZURE_OPENAI_DEPLOYMENT_NAME |-> "deploy-B", AZURE_OPENAI_MODEL |-> "model-B",
     AZURE_OPENAI_API_VERSION |-> "2024-02-01"]
Profiles == {ProfileA, ProfileB}

\* An environment: each of the five variables is unset, set to "", or set to a value.
EnvOf(profile, unset, blank) ==
    [n \in ConfigNames |-> IF n \in unset THEN None
                           ELSE IF n \in blank THEN Some("")
                           ELSE Some(profile[n])]
EmptyEnv == [n \in ConfigNames |-> None]
FullEnvs == {EnvOf(p, {}, {}) : p \in Profiles}
\* the values one variable may take
EnvValues(n) == {None, Some("")} \cup {Some(p[n]) : p \in Profiles}

\* os.getenv(name)
getenv(e, name) == e[name]

\* Python truthiness of the value os.getenv returns: None and "" are falsy
truthy(v) == v # None /\ v[1] # ""

\* as if openai_model, which nothing later uses, were left out of the check
all_configured_but_model(cfg) ==
    \A n \in ConfigNames \ {"AZURE_OPENAI_MODEL"} : cfg[n] # None /\ cfg[n][1] # ""

\* all([openai_api_key, openai_endpoint, openai_deployment_name, openai_model,
\*      openai_api_version])
all_configured(cfg) == \A n \in ConfigNames : truthy(cfg[n])

(***************************************************************************)
(* generate_query_from_natural_language: prompt, request and response.     *)
(***************************************************************************)
Temperature == 0
MaxTokens == 150
SystemMessage == "You are a helpful assistant that generates SQL queries."

UserInputs == {"active employees in department 2", "all departments"}

\* The prompt template has two holes: json.dumps(self.schema['tables'], indent=2)
\* and the user's text.
build_prompt(s, user_input) == [tables |-> s.tables, request |-> user_input]

\* as if the deployment were looked up in the environment when the request is made
chat_completion_request_late_deployment(cl, deployment_name, prompt) ==
    [api_type |-> cl.api_type, api_key |-> cl.api_key, api_base |-> cl.api_base,
     api_version |-> cl.api_version,
     deployment_id |-> IF getenv(env, "AZURE_OPENAI_DEPLOYMENT_NAME") = None
                       THEN deployment_name
                       ELSE getenv(env, "AZURE_OPENAI_DEPLOYMENT_NAME")[1],
     system |-> SystemMessage,
     user |-> prompt,
     temperature |-> Temperature,
     max_tokens |-> MaxTokens]

\* openai.ChatCompletion.create(...): the request carries the arguments given at the
\* call and the module-level configuration as it stands when the call is made.
chat_completion_request(cl, deployment_name, prompt) ==
    [api_type |-> cl.api_type, api_key |-> cl.api_key, api_base |-> cl.api_base,
     api_version |-> cl.api_version,
     deployment_id |-> deployment_name,
     system |-> SystemMessage,
     user |-> prompt,
     temperature |-> Temperature,
     max_tokens |-> MaxTokens]

Whitespace == {" ", "\t", "\n", "\r"}

RECURSIVE lstrip(_)
lstrip(str) ==
    IF Len(str) > 0 /\ Head(str) \in Whitespace THEN lstrip(Tail(str)) ELSE str

RECURSIVE rstrip(_)
rstrip(str) ==
    IF Len(str) > 0 /\ SubSeq(str, Len(str), Len(str)) \in Whitespace
    THEN rstrip(SubSeq(str, 1, Len(str) - 1))
    ELSE str

\* str.strip()
strip(str) == rstrip(lstrip(str))

\* What the service may answer.  kind = "raises": the call raises an exception whose
\* description is desc.  kind = "value": the call returns body, a mapping that may or
\* may not have the expected keys.
Message(c) == [hasContent |-> TRUE, content |-> c]
MessageWithoutContent == [hasContent |-> FALSE, content |-> None]
Choice(m) == [hasMessage |-> TRUE, message |-> m]
ChoiceWithoutMessage == [hasMessage |-> FALSE, message |-> MessageWithoutContent]
Body(cs) == [hasChoices |-> TRUE, choices |-> cs]
BodyWithoutChoices == [hasChoices |-> FALSE, choices |-> <<>>]

Raises(d) == [kind |-> "raises", desc |-> d, body |-> BodyWithoutChoices]
Answers(b) == [kind |-> "value", desc |-> "", body |-> b]

ContentAlphabet == {" ", "\n", "S"}
Contents == StringsUpTo(ContentAlphabet, MaxContentLen)

FailureResponses ==
    {Raises("Request timed out"), Raises("The server is overloaded"),
     Answers(BodyWithoutChoices),
     Answers(Body(<<>>)),
     Answers(Body(<<ChoiceWithoutMessage>>)),
     Answers(Body(<<Choice(MessageWithoutContent)>>)),
     Answers(Body(<<Choice(Message(None))>>))}
SuccessResponses ==
    {Answers(Body(<<Choice(Message(Some(c)))>>)) : c \in Contents}
    \cup {Answers(Body(<<Choice(Message(Some("SELECT 1"))), Choice(Message(Some("other")))>>))}
Responses == FailureResponses \cup SuccessResponses

\* response['choices'][0]['message']['content'].strip()
read_content(body) ==
    IF ~body.hasChoices THEN Raise("KeyError", "'choices'")
    ELSE IF body.choices = <<>> THEN Raise("IndexError", "list index out of range")
    ELSE IF ~body.choices[1].hasMessage THEN Raise("KeyError", "'message'")
    ELSE IF ~body.choices[1].message.hasContent THEN Raise("KeyError", "'content'")
    ELSE IF body.choices[1].message.content = None
    THEN Raise("AttributeError", "'NoneType' object has no attribute 'strip'")
    ELSE Return(strip(body.choices[1].message.content[1]))

\* as if the try block held only the call, and the content were read after it
complete_exchange_call_only(resp) ==
    IF resp.kind = "raises" THEN Return("Error generating query: " \o resp.desc)
    ELSE read_content(resp.body)

\* the try/except around the call: every Exception becomes a returned string
complete_exchange(resp) ==
    IF resp.kind = "raises" THEN Return("Error generating query: " \o resp.desc)
    ELSE LET got == read_content(resp.body)
         IN  IF got.kind = "raise" THEN Return("Error generating query: " \o got.msg)
             ELSE got

(***************************************************************************)
(* Inputs of the calls.                                                    *)
(***************************************************************************)
TableNames == {"employees", "departments", "projects"}
ColumnNames == {"first_name", "department_id", "salary"}
ConditionKeys == {"department_id", "is_active", "not_a_real_field"}
ConditionValues == {"2", "true"}

ColumnLists == SeqsUpTo(ColumnNames, MaxCols)

\* A dict has distinct keys; its pairs are kept in insertion order.
ConditionDicts ==
    {d \in SeqsUpTo(ConditionKeys \X ConditionValues, MaxConds) :
        \A i, j \in 1..Len(d) : i # j => d[i][1] # d[j][1]}

\* conditions=None (also the default), or a dict, possibly empty
ConditionArgs == {None} \cup {Some(d) : d \in ConditionDicts}

(***************************************************************************)
(* State.                                                                  *)
(***************************************************************************)
NoLocals == [cfg |-> EmptyEnv, user_input |-> "", prompt |-> None, sent |-> 0]

NoCall ==
    [op |-> "none", table_name |-> "", columns |-> <<>>, conditions |-> None,
     user_input |-> "", cfg |-> EmptyEnv, response |-> None, sent |-> 0,
     outcome |-> NoOutcome]

UnsetClient == [api_type |-> None, api_key |-> None, api_base |-> None, api_version |-> None]

Init ==
    /\ schema = None
    /\ ctor = NoOutcome
    /\ env = EmptyEnv
    /\ client = UnsetClient
    /\ pc = [t \in Threads |-> "idle"]
    /\ locals = [t \in Threads |-> NoLocals]
    /\ request = [t \in Threads |-> None]
    /\ last = [t \in Threads |-> NoCall]
    /\ calls = 0

(***************************************************************************)
(* SQLQueryGenerator(schema_file)                                          *)
(***************************************************************************)
Construct(doc) ==
    /\ schema = None
    /\ ctor' = init_outcome(doc)
    /\ schema' = IF init_outcome(doc).kind = "return" THEN Some(doc.value) ELSE None
    /\ UNCHANGED <<env, client, pc, locals, request, last, calls>>

(***************************************************************************)
(* generate_query(table_name, columns, conditions) called by t             *)
(***************************************************************************)
GenerateQuery(t, table_name, columns, conditions) ==
    /\ schema # None
    /\ pc[t] = "idle"
    /\ calls < MaxCalls
    /\ calls' = calls + 1
    /\ last' = [last EXCEPT ![t] =
                   [NoCall EXCEPT !.op = "generate_query",
                                  !.table_name = table_name,
                                  !.columns = columns,
                                  !.conditions = conditions,
                                  !.outcome = generate_query(schema[1], table_name,
                                                             columns, conditions)]]
    /\ pc' = [pc EXCEPT ![t] = "returned"]
    /\ UNCHANGED <<schema, ctor, env, client, locals, request>>

(***************************************************************************)
(* generate_query_from_natural_language(user_input) called by t            *)
(***************************************************************************)
NLReturn(t, outcome, response) ==
    /\ last' = [last EXCEPT ![t] =
                   [NoCall EXCEPT !.op = "generate_query_from_natural_language",
                                  !.user_input = locals'[t].user_input,
                                  !.cfg = locals'[t].cfg,
                                  !.response = response,
                                  !.sent = locals'[t].sent,
                                  !.outcome = outcome]]
    /\ pc' = [pc EXCEPT ![t] = "returned"]

\* os.getenv x 5 and the `if not all(...)` check.  The five reads and the check touch
\* only the environment and locals; they are taken as one step, the environment
\* changing only between steps.
ReadConfig(t, user_input) ==
    /\ schema # None
    /\ pc[t] = "idle"
    /\ calls < MaxCalls
    /\ calls' = calls + 1
    /\ locals' = [locals EXCEPT ![t] =
                     [NoLocals EXCEPT !.cfg = [n \in ConfigNames |-> getenv(env, n)],
                                      !.user_input = user_input]]
    /\ IF all_configured(locals'[t].cfg)
       THEN /\ pc' = [pc EXCEPT ![t] = "set_api_type"]
            /\ UNCHANGED last
       ELSE NLReturn(t, Raise("EnvironmentError",
                              "One or more OpenAI environment variables are missing."),
                     None)
    /\ UNCHANGED <<schema, ctor, env, client, request>>

\* openai.api_type = "azure"
SetApiType(t) ==
    /\ pc[t] = "set_api_type"
    /\ client' = [client EXCEPT !.api_type = Some("azure")]
    /\ pc' = [pc EXCEPT ![t] = "set_api_key"]
    /\ UNCHANGED <<schema, ctor, env, locals, request, last, calls>>

\* openai.api_key = openai_api_key
SetApiKey(t) ==
    /\ pc[t] = "set_api_key"
    /\ client' = [client EXCEPT !.api_key = locals[t].cfg["AZURE_OPENAI_API_KEY"]]
    /\ pc' = [pc EXCEPT ![t] = "set_api_base"]
    /\ UNCHANGED <<schema, ctor, env, locals, request, last, calls>>

\* openai.api_base = openai_endpoint
SetApiBase(t) ==
    /\ pc[t] = "set_api_base"
    /\ client' = [client EXCEPT !.api_base = locals[t].cfg["AZURE_OPENAI_ENDPOINT"]]
    /\ pc' = [pc EXCEPT ![t] = "set_api_version"]
    /\ UNCHANGED <<schema, ctor, env, locals, request, last, calls>>

\* openai.api_version = openai_api_version
SetApiVersion(t) ==
    /\ pc[t] = "set_api_version"
    /\ client' = [client EXCEPT !.api_version = locals[t].cfg["AZURE_OPENAI_API_VERSION"]]
    /\ pc' = [pc EXCEPT ![t] = "build_prompt"]
    /\ UNCHANGED <<schema, ctor, env, locals, request, last, calls>>

\* prompt = f"""...{json.dumps(self.schema['tables'], indent=2)}..."{user_input}"..."""
\* The subscript is outside the try block: a KeyError propagates to the caller.
BuildPrompt(t) ==
    /\ pc[t] = "build_prompt"
    /\ IF schema[1].hasTables
       THEN /\ locals' = [locals EXCEPT ![t].prompt =
                             Some(build_prompt(schema[1], locals[t].user_input))]
            /\ pc' = [pc EXCEPT ![t] = "create"]
            /\ UNCHANGED last
       ELSE /\ locals' = locals
            /\ NLReturn(t, Raise("KeyError", "'tables'"), None)
    /\ UNCHANGED <<schema, ctor, env, client, request, calls>>

\* openai.ChatCompletion.create(...): the request leaves
SendRequest(t) ==
    /\ pc[t] = "create"
    /\ request' = [request EXCEPT ![t] =
                      Some(chat_completion_request(
                               client,
                               locals[t].cfg["AZURE_OPENAI_DEPLOYMENT_NAME"][1],
                               locals[t].prompt[1]))]
    /\ locals' = [locals EXCEPT ![t].sent = @ + 1]
    /\ pc' = [pc EXCEPT ![t] = "awaiting"]
    /\ UNCHANGED <<schema, ctor, env, client, last, calls>>

\* the call returns or raises; the content is read and stripped, or the except
\* clause turns the exception into the returned string
Receive(t, resp) ==
    /\ pc[t] = "awaiting"
    /\ request' = [request EXCEPT ![t] = None]
    /\ locals' = locals
    /\ NLReturn(t, complete_exchange(resp), Some(resp))
    /\ UNCHANGED <<schema, ctor, env, client, calls>>

(***************************************************************************)
(* The caller takes the result (it is printed) and may call again.         *)
(***************************************************************************)
Consume(t) ==
    /\ pc[t] = "returned"
    /\ pc' = [pc EXCEPT ![t] = "idle"]
    /\ last' = [last EXCEPT ![t] = NoCall]
    /\ locals' = [locals EXCEPT ![t] = NoLocals]
    /\ UNCHANGED <<schema, ctor, env, client, request, calls>>

(***************************************************************************)
(* The environment changes (load_dotenv, or os.environ edited by the host).*)
(***************************************************************************)
SetEnv(e) ==
    /\ e # env
    /\ env' = e
    /\ UNCHANGED <<schema, ctor, client, pc, locals, request, last, calls>>

AllIdle == \A t \in Threads : pc[t] = "idle"

(***************************************************************************)
(* Spec: the structured path, one caller.                                  *)
(* In each Next the guard on pc is repeated in front of the quantifier so  *)
(* that the inputs are enumerated only where the action is enabled.        *)
(***************************************************************************)
Next ==
    \/ \E doc \in Documents : Construct(doc)
    \/ /\ pc[MainThread] = "idle"
       /\ \E tn \in TableNames, cols \in ColumnLists, conds \in ConditionArgs :
             GenerateQuery(MainThread, tn, cols, conds)
    \/ Consume(MainThread)

Spec == Init /\ [][Next]_vars

(***************************************************************************)
(* SpecNL: the natural-language path, one caller, as in the console loop;  *)
(* single variables of the environment change between calls.              *)
(***************************************************************************)
NextNL ==
    \/ \E doc \in Documents : Construct(doc)
    \/ /\ AllIdle
       /\ \E n \in ConfigNames : \E v \in EnvValues(n) : SetEnv([env EXCEPT ![n] = v])
    \/ \E u \in UserInputs : ReadConfig(MainThread, u)
    \/ SetApiType(MainThread)
    \/ SetApiKey(MainThread)
    \/ SetApiBase(MainThread)
    \/ SetApiVersion(MainThread)
    \/ BuildPrompt(MainThread)
    \/ SendRequest(MainThread)
    \/ /\ pc[MainThread] = "awaiting"
       /\ \E resp \in Responses : Receive(MainThread, resp)
    \/ Consume(MainThread)

SpecNL == Init /\ [][NextNL]_vars

(***************************************************************************)
(* SpecConc: several callers of one builder, both operations, interleaved  *)
(* at every step; the environment may be reloaded at any time.             *)
(***************************************************************************)
ConcResponses == {Answers(Body(<<Choice(Message(Some(" SELECT 1 ")))>>))}
ConcInput(t) == IF t = MainThread THEN "active employees in department 2" ELSE "all departments"

NextConc ==
    \/ \E doc \in Documents : Construct(doc)
    \/ \E e \in FullEnvs : SetEnv(e)
    \/ \E t \in Threads :
          \/ GenerateQuery(t, "employees", <<"first_name">>, None)
          \/ ReadConfig(t, ConcInput(t))
          \/ SetApiType(t)
          \/ SetApiKey(t)
          \/ SetApiBase(t)
          \/ SetApiVersion(t)
          \/ BuildPrompt(t)
          \/ SendRequest(t)
          \/ \E resp \in ConcResponses : Receive(t, resp)
          \/ Consume(t)

SpecConc == Init /\ [][NextConc]_vars

(***************************************************************************)
(* Vocabulary of the properties.                                           *)
(***************************************************************************)
StartsWith(str, prefix) ==
    Len(prefix) <= Len(str) /\ SubSeq(str, 1, Len(prefix)) = prefix

EndsWith(str, suffix) ==
    Len(suffix) <= Len(str) /\ SubSeq(str, Len(str) - Len(suffix) + 1, Len(str)) = suffix

Occurrences(str, sub) ==
    {i \in 1..(Len(str) - Len(sub) + 1) : SubSeq(str, i, i + Len(sub) - 1) = sub}

Contains(str, sub) == Occurrences(str, sub) # {}

\* position of the first occurrence of sub in str, 0 if there is none
IndexOf(str, sub) ==
    IF Contains(str, sub)
    THEN CHOOSE i \in Occurrences(str, sub) : \A j \in Occurrences(str, sub) : i <= j
    ELSE 0

\* T is a key of the schema's table mapping
IsTable(s, T) == s.hasTables /\ T \in DOMAIN s.tables

\* c is a key of the field mapping of table T
IsField(s, T, c) == IsTable(s, T) /\ s.tables[T].hasFields /\ c \in s.tables[T].fields

\* the nested-mapping shape: a "tables" key whose values each have a "fields" key
ExpectedShape(s) == s.hasTables /\ \A T \in DOMAIN s.tables : s.tables[T].hasFields

\* caller t has just completed a call of generate_query
Generated(t) == pc[t] = "returned" /\ last[t].op = "generate_query"

\* caller t has just completed a call of generate_query_from_natural_language
Asked(t) == pc[t] = "returned" /\ last[t].op = "generate_query_from_natural_language"

UnknownTable(T) == Raise("ValueError", "Table '" \o T \o "' does not exist in the schema.")

UnknownColumn(T, c) ==
    Raise("ValueError", "Column '" \o c \o "' does not exist in table '" \o T \o "'.")

\* items joined by sep, built from the left
RECURSIVE Joined(_, _)
Joined(items, sep) ==
    IF Len(items) = 0 THEN ""
    ELSE IF Len(items) = 1 THEN items[1]
    ELSE Joined(SubSeq(items, 1, Len(items) - 1), sep) \o sep \o items[Len(items)]

\* the statement the specification prescribes for valid (T, C, conditions)
ExpectedQuery(T, C, conditions) ==
    LET base == "SELECT " \o Joined(C, ", ") \o " FROM " \o T
        dict == IF conditions = None THEN <<>> ELSE conditions[1]
        clauses == [i \in 1..Len(dict) |-> dict[i][1] \o " = '" \o dict[i][2] \o "'"]
    IN  IF Len(dict) > 0 THEN base \o " WHERE " \o Joined(clauses, " AND ") ELSE base

(***************************************************************************)
(* Properties of generate_query (checked under Spec).                      *)
(***************************************************************************)
\* C1: for every table T that is a key of the schema, every column sequence C whose
\* entries are all fields of T and every conditions argument (absent, empty or
\* non-empty), generate_query returns exactly "SELECT " + C joined by ", " + " FROM " + T,
\* followed by " WHERE k1 = 'v1' AND ... AND kn = 'vn'" in insertion order if and only
\* if conditions is non-empty; the scenario of the specification yields its literal text.
C1_ExactQuery ==
    \A t \in Threads :
        ( /\ Generated(t)
          /\ IsTable(schema[1], last[t].table_name)
          /\ \A i \in 1..Len(last[t].columns) :
                IsField(schema[1], last[t].table_name, last[t].columns[i]) )
        => /\ last[t].outcome =
                 Return(ExpectedQuery(last[t].table_name, last[t].columns, last[t].conditions))
           /\ Contains(last[t].outcome.value, " WHERE ")
                 <=> (last[t].conditions # None /\ last[t].conditions[1] # <<>>)
           /\ ( /\ last[t].table_name = "employees"
                /\ last[t].columns = <<"first_name", "department_id">>
                /\ last[t].conditions =
                      Some(<< <<"department_id", "2">>, <<"is_active", "true">> >>) )
              => last[t].outcome.value =
                    "SELECT first_name, department_id FROM employees WHERE department_id = '2' AND is_active = 'true'"

\* C1 witness: the scenario of the specification has been asked and answered, and so
\* has a call with an empty conditions mapping.
C1_Witness ==
    \E t \in Threads :
        /\ Generated(t)
        /\ schema = Some(EmployeeSchema)
        /\ last[t].table_name = "employees"
        /\ last[t].columns = <<"first_name", "department_id">>
        /\ last[t].conditions = Some(<< <<"department_id", "2">>, <<"is_active", "true">> >>)
        /\ last[t].outcome.kind = "return"

\* C7: condition keys are never validated: for a valid table T and valid columns C and
\* a non-empty conditions mapping with keys that are not fields of T, generate_query
\* returns a query (no Unknown Column error) and every such key appears verbatim, with
\* its value, in the WHERE clause.
C7_ConditionKeysNotValidated ==
    \A t \in Threads :
        ( /\ Generated(t)
          /\ IsTable(schema[1], last[t].table_name)
          /\ \A i \in 1..Len(last[t].columns) :
                IsField(schema[1], last[t].table_name, last[t].columns[i])
          /\ last[t].conditions # None )
        => \A k \in 1..Len(last[t].conditions[1]) :
              ~IsField(schema[1], last[t].table_name, last[t].conditions[1][k][1])
              => /\ last[t].outcome.kind = "return"
                 /\ LET q == last[t].outcome.value
                        w == IndexOf(q, " WHERE ")
                    IN  /\ w > 0
                        /\ Contains(SubSeq(q, w + Len(" WHERE "), Len(q)),
                                    last[t].conditions[1][k][1] \o " = '"
                                       \o last[t].conditions[1][k][2] \o "'")

\* C7 witness: the call of the specification's example shape, with a key that is no
\* field of the table, has returned.
C7_Witness ==
    \E t \in Threads :
        /\ Generated(t)
        /\ schema = Some(EmployeeSchema)
        /\ last[t].table_name = "employees"
        /\ last[t].columns = <<"first_name">>
        /\ last[t].conditions = Some(<< <<"not_a_real_field", "2">> >>)
        /\ last[t].outcome.kind = "return"

\* the smallest index of an entry of C that is not a field of T
FirstOffending(s, T, C) ==
    CHOOSE i \in 1..Len(C) :
        /\ ~IsField(s, T, C[i])
        /\ \A j \in 1..(i - 1) : IsField(s, T, C[j])

\* t takes the step that completes a call of generate_query
GenerateQueryStep(t) ==
    pc[t] = "idle" /\ pc'[t] = "returned" /\ last'[t].op = "generate_query"

\* C2: for every table name that is not a key of the schema's table mapping, whatever
\* the columns and conditions, generate_query fails with Unknown Table (naming the
\* table, before any column is looked at), returns no query, and changes neither the
\* schema nor the client configuration nor issues a request.
C2_UnknownTable ==
    [][ \A t \in Threads :
           (GenerateQueryStep(t) /\ ~IsTable(schema[1], last'[t].table_name))
           => /\ last'[t].outcome = UnknownTable(last'[t].table_name)
              /\ UNCHANGED <<schema, ctor, env, client, request, locals>> ]_vars

\* C2 on a schema that has a table mapping: the same statement, for table names that
\* are not keys of an existing "tables" mapping.
C2_OnTableMapping ==
    [][ \A t \in Threads :
           ( /\ GenerateQueryStep(t)
             /\ schema[1].hasTables
             /\ last'[t].table_name \notin DOMAIN schema[1].tables )
           => /\ last'[t].outcome = UnknownTable(last'[t].table_name)
              /\ UNCHANGED <<schema, ctor, env, client, request, locals>> ]_vars

\* C3: for every table in the schema and every column sequence with at least one entry
\* that is not a field of that table, generate_query fails with Unknown Column naming
\* the offending entry of smallest index, and returns no query.
C3_FirstUnknownColumn ==
    \A t \in Threads :
        ( /\ Generated(t)
          /\ IsTable(schema[1], last[t].table_name)
          /\ \E i \in 1..Len(last[t].columns) :
                ~IsField(schema[1], last[t].table_name, last[t].columns[i]) )
        => last[t].outcome =
              UnknownColumn(last[t].table_name,
                            last[t].columns[FirstOffending(schema[1], last[t].table_name,
                                                           last[t].columns)])

\* C3 on a table that has a field mapping: the same statement, for tables whose
\* descriptor has the "fields" key.
C3_OnFieldMapping ==
    \A t \in Threads :
        ( /\ Generated(t)
          /\ IsTable(schema[1], last[t].table_name)
          /\ schema[1].tables[last[t].table_name].hasFields
          /\ \E i \in 1..Len(last[t].columns) :
                ~IsField(schema[1], last[t].table_name, last[t].columns[i]) )
        => last[t].outcome =
              UnknownColumn(last[t].table_name,
                            last[t].columns[FirstOffending(schema[1], last[t].table_name,
                                                           last[t].columns)])

\* C8: construction fails when the document is missing, unreadable, unparseable or not
\* of the nested-mapping shape; so every constructed builder holds a schema of that
\* shape and no later call fails because the schema is malformed (a KeyError on
\* "tables" or "fields").
C8_SchemaShape ==
    /\ ctor.kind = "return" <=> schema # None
    /\ schema # None => ExpectedShape(schema[1])
    /\ \A t \in Threads : ~(last[t].outcome.kind = "raise" /\ last[t].outcome.exc = "KeyError")

\* C8 for the documents that cannot be opened or parsed: construction fails and no
\* builder exists.
C8_UnreadableDocuments ==
    /\ ctor.kind = "return" <=> schema # None
    /\ ctor.kind = "raise"
          => ctor.exc \in {"FileNotFoundError", "PermissionError", "JSONDecodeError"}

\* a SELECT statement: a non-empty select list between "SELECT" and "FROM", the table
\* name after "FROM", an optional WHERE with at least one clause, no trailing semicolon
WellFormedSelect(q, T) ==
    LET f == IndexOf(q, " FROM ")
        w == IndexOf(q, " WHERE ")
        stop == IF w > 0 THEN w - 1 ELSE Len(q)
    IN  /\ StartsWith(q, "SELECT ")
        /\ f > Len("SELECT ") + 1
        /\ SubSeq(q, f + Len(" FROM "), stop) = T
        /\ Len(T) > 0
        /\ w > 0 => Len(q) >= w + Len(" WHERE ")
        /\ ~EndsWith(q, ";")

\* C9: whenever generate_query returns a string (any table of the schema, any column
\* sequence that passes validation, the empty sequence included, with or without
\* conditions), the string is a well-formed SELECT.
C9_WellFormed ==
    \A t \in Threads :
        (Generated(t) /\ last[t].outcome.kind = "return")
        => WellFormedSelect(last[t].outcome.value, last[t].table_name)

\* C9 for non-empty column sequences.
C9_NonEmptyColumns ==
    \A t \in Threads :
        (Generated(t) /\ last[t].outcome.kind = "return" /\ last[t].columns # <<>>)
        => WellFormedSelect(last[t].outcome.value, last[t].table_name)

(***************************************************************************)
(* Properties of generate_query_from_natural_language (checked under       *)
(* SpecNL).                                                                *)
(***************************************************************************)
\* the configuration value is absent: the variable is not set
Absent(v) == v = None

\* the value is present: set, and not to the empty string
Present(v) == v # None /\ v # Some("")

MissingConfiguration ==
    Raise("EnvironmentError", "One or more OpenAI environment variables are missing.")

\* C4: with any one (or more) of the five configuration values absent,
\* generate_query_from_natural_language raises Missing Configuration (it returns no
\* string) and issues no request in that call: whenever a call has issued a request,
\* it read all five values.
C4_MissingConfiguration ==
    \A t \in Threads :
        /\ (Asked(t) /\ \E n \in ConfigNames : Absent(last[t].cfg[n]))
           => /\ last[t].outcome = MissingConfiguration
              /\ last[t].sent = 0
              /\ last[t].response = None
        /\ (locals[t].sent > 0 \/ request[t] # None)
           => \A n \in ConfigNames : ~Absent(locals[t].cfg[n])

\* C4 witness: a call made with exactly one value absent (the model identifier) and
\* the four others set has completed.
C4_Witness ==
    \E t \in Threads :
        /\ Asked(t)
        /\ Absent(last[t].cfg["AZURE_OPENAI_MODEL"])
        /\ \A n \in ConfigNames \ {"AZURE_OPENAI_MODEL"} : Present(last[t].cfg[n])
        /\ last[t].outcome.kind = "raise"

\* the exchange failed: the call raised, or the first choice's message content cannot
\* be read from the response
ExchangeFailed(resp) ==
    \/ resp.kind = "raises"
    \/ ~resp.body.hasChoices
    \/ resp.body.choices = <<>>
    \/ ~resp.body.choices[1].hasMessage
    \/ ~resp.body.choices[1].message.hasContent
    \/ resp.body.choices[1].message.content = None

\* the description (str) of the error a failed exchange produces
ErrorDescription(resp) ==
    CASE resp.kind = "raises" -> resp.desc
      [] ~resp.body.hasChoices -> "'choices'"
      [] resp.body.choices = <<>> -> "list index out of range"
      [] ~resp.body.choices[1].hasMessage -> "'message'"
      [] ~resp.body.choices[1].message.hasContent -> "'content'"
      [] OTHER -> "'NoneType' object has no attribute 'strip'"

\* C5: with all five configuration values present, when the exchange fails in any way
\* (the call raises, or the response is malformed), the operation does not raise: it
\* returns a string that begins with "Error generating query:" and contains the
\* description of the underlying error.
C5_ErrorAsValue ==
    \A t \in Threads :
        ( /\ Asked(t)
          /\ \A n \in ConfigNames : Present(last[t].cfg[n])
          /\ last[t].response # None
          /\ ExchangeFailed(last[t].response[1]) )
        => /\ last[t].outcome.kind = "return"
           /\ StartsWith(last[t].outcome.value, "Error generating query:")
           /\ Contains(last[t].outcome.value, ErrorDescription(last[t].response[1]))

\* C5 witness: a call whose response lacked the "choices" key has completed, and so
\* the malformed-response case has happened.
C5_Witness ==
    \E t \in Threads :
        /\ Asked(t)
        /\ \A n \in ConfigNames : Present(last[t].cfg[n])
        /\ last[t].response = Some(Answers(BodyWithoutChoices))
        /\ last[t].outcome.kind = "return"

\* value is content with its leading and trailing whitespace removed
IsTrimmed(value, content) ==
    /\ \A c \in Whitespace : ~StartsWith(value, c) /\ ~EndsWith(value, c)
    /\ \E i \in 1..(Len(content) + 1) :
          /\ \A k \in 1..(i - 1) : SubSeq(content, k, k) \in Whitespace
          /\ SubSeq(content, i, i + Len(value) - 1) = value
          /\ i + Len(value) - 1 <= Len(content)
          /\ \A k \in (i + Len(value))..Len(content) : SubSeq(content, k, k) \in Whitespace

\* C6: every invocation with all five configuration values present issues exactly one
\* request, whether it succeeds or fails (no retry, no second request), and on success
\* returns the first choice's message content with leading and trailing whitespace
\* trimmed.
C6_ExactlyOneRequest ==
    \A t \in Threads :
        /\ locals[t].sent <= 1
        /\ (Asked(t) /\ \A n \in ConfigNames : Present(last[t].cfg[n]))
           => /\ last[t].sent = 1
              /\ last[t].response # None
              /\ ~ExchangeFailed(last[t].response[1])
                 => /\ last[t].outcome.kind = "return"
                    /\ IsTrimmed(last[t].outcome.value,
                                 last[t].response[1].body.choices[1].message.content[1])

\* C6 on a schema that has the "tables" key.
C6_OnTableMapping ==
    \A t \in Threads :
        /\ locals[t].sent <= 1
        /\ (Asked(t) /\ schema[1].hasTables /\ \A n \in ConfigNames : Present(last[t].cfg[n]))
           => /\ last[t].sent = 1
              /\ last[t].response # None
              /\ ~ExchangeFailed(last[t].response[1])
                 => /\ last[t].outcome.kind = "return"
                    /\ IsTrimmed(last[t].outcome.value,
                                 last[t].response[1].body.choices[1].message.content[1])

(***************************************************************************)
(* Properties of concurrent invocations (checked under SpecConc).          *)
(***************************************************************************)
\* t takes the step that issues its request
SendStep(t) == request[t] = None /\ request'[t] # None

\* the part of a request that comes from the call's arguments: the deployment read by
\* this call and the prompt made of the schema and this call's input
OwnArguments(t, req) ==
    /\ req.deployment_id = locals[t].cfg["AZURE_OPENAI_DEPLOYMENT_NAME"][1]
    /\ req.user = [tables |-> schema[1].tables, request |-> locals[t].user_input]
    /\ req.system = SystemMessage
    /\ req.temperature = Temperature
    /\ req.max_tokens = MaxTokens

\* the part of a request that comes from the client configuration: as this call read it
OwnCredentials(t, req) ==
    /\ req.api_type = Some("azure")
    /\ req.api_key = locals[t].cfg["AZURE_OPENAI_API_KEY"]
    /\ req.api_base = locals[t].cfg["AZURE_OPENAI_ENDPOINT"]
    /\ req.api_version = locals[t].cfg["AZURE_OPENAI_API_VERSION"]

\* t is at one of the four assignments to the client configuration
Configuring(t) == pc[t] \in {"set_api_type", "set_api_key", "set_api_base", "set_api_version"}

\* C10: across any interleaving of invocations the only shared state is the schema,
\* never written after construction: no invocation writes a variable another one reads
\* or writes, so the request a natural-language call sends is determined only by that
\* call's own configuration values and input.
C10_OnlySchemaShared ==
    [][ /\ schema # None => schema' = schema
        /\ client' = client
        /\ \A t \in Threads :
              SendStep(t) => OwnArguments(t, request'[t][1]) /\ OwnCredentials(t, request'[t][1])
      ]_vars

\* C10 as amended: the schema is never written after construction and generate_query
\* writes no shared state; the client configuration is shared as well: it is written
\* only by natural-language invocations that passed the configuration check, each
\* assignment storing the writer's own value, and it is read when a request is issued.
\* A request carries the call's own deployment and prompt, and the credentials,
\* endpoint and version the client configuration holds at that moment.
C10_SchemaAndClientShared ==
    [][ /\ schema # None => schema' = schema
        /\ \A t \in Threads :
              GenerateQueryStep(t) => UNCHANGED <<schema, env, client, request, locals>>
        /\ client' # client
              => \E t \in Threads :
                    /\ Configuring(t)
                    /\ pc'[t] # pc[t]
                    /\ \E f \in {"api_type", "api_key", "api_base", "api_version"} :
                          /\ client' = [client EXCEPT ![f] = client'[f]]
                          /\ client'[f] \in {Some("azure")}
                                \cup {locals[t].cfg[n] : n \in ConfigNames}
        /\ \A t \in Threads :
              SendStep(t)
              => /\ OwnArguments(t, request'[t][1])
                 /\ request'[t][1].api_type = client.api_type
                 /\ request'[t][1].api_key = client.api_key
                 /\ request'[t][1].api_base = client.api_base
                 /\ request'[t][1].api_version = client.api_version
      ]_vars

\* C10 witness: a request is in flight that carries a key other than the one its own
\* call read, written by another invocation in between.
C10_Witness ==
    \E t \in Threads :
        /\ request[t] # None
        /\ pc[t] = "awaiting"
        /\ request[t][1].api_key # locals[t].cfg["AZURE_OPENAI_API_KEY"]
        /\ \E u \in Threads \ {t} : request[t][1].api_key = locals[u].cfg["AZURE_OPENAI_API_KEY"]

====
